---- MODULE Spec2Model ----
(***************************************************************************)
(* Model of the note collection manager of aipowerdnoteorganizer.py:       *)
(* the Note / CategorizedNote records and their serialization, the         *)
(* keyword categorizer, and NoteOrganizer's load / save / add / delete     *)
(* against one JSON file.                                                  *)
(*                                                                         *)
(* Text is a sequence of one-character strings.  A JSON object is a record *)
(* whose DOMAIN is the set of keys present.  The file is absent, holds     *)
(* text that is not JSON ("garbage", which is also what a write that       *)
(* failed after open(...,'w') truncated the file leaves), or holds a JSON  *)
(* list of objects.                                                        *)
(***************************************************************************)
EXTENDS Integers, Sequences, FiniteSets, TLC

VARIABLES pc, notes, disk, lastOp, lastArg, found, saveResult, warning,
          used, failures, catTitle, catContent, catResult

vars == <<pc, notes, disk, lastOp, lastArg, found, saveResult, warning,
          used, failures, catTitle, catContent, catResult>>

mgrVars == <<pc, notes, disk, lastOp, lastArg, found, saveResult, warning,
             used, failures>>

catVars == <<catTitle, catContent, catResult>>

-----------------------------------------------------------------------------
(* Bounds *)

\* longest collection the model lets add_note build
MaxNotes == 3
\* largest id add_note may hand out in the model
MaxId == 3
\* most records in a file found at start-up
MaxStored == 2
\* largest id in a file found at start-up
MaxStoredId == 2
\* most I/O failures (read or write) in one behaviour
MaxFailures == 1

-----------------------------------------------------------------------------
(* Text *)

UpperChars == <<"A","B","C","D","E","F","G","H","I","J","K","L","M",
                "N","O","P","Q","R","S","T","U","V","W","X","Y","Z">>

LowerChars == <<"a","b","c","d","e","f","g","h","i","j","k","l","m",
                "n","o","p","q","r","s","t","u","v","w","x","y","z">>

\* str.lower() on one character
LowerChar(c) ==
    IF \E i \in 1..Len(UpperChars) : UpperChars[i] = c
    THEN LowerChars[CHOOSE i \in 1..Len(UpperChars) : UpperChars[i] = c]
    ELSE c

\* str.lower()
Lower(text) == [i \in 1..Len(text) |-> LowerChar(text[i])]

\* kw in text
IsSubstring(kw, text) ==
    \E i \in 0..(Len(text) - Len(kw)) : SubSeq(text, i + 1, i + Len(kw)) = kw

-----------------------------------------------------------------------------
(* _categorize_note *)

\* the keywords dict, in insertion order
keywords == <<
    [category |-> "Work", kws |-> <<
        <<"m","e","e","t","i","n","g">>,
        <<"p","r","o","j","e","c","t">>,
        <<"d","e","a","d","l","i","n","e">>,
        <<"r","e","p","o","r","t">>,
        <<"t","a","s","k">>,
        <<"w","o","r","k">> >>],
    [category |-> "Personal", kws |-> <<
        <<"s","h","o","p","p","i","n","g">>,
        <<"g","y","m">>,
        <<"f","a","m","i","l","y">>,
        <<"f","r","i","e","n","d","s">>,
        <<"g","r","o","c","e","r","y">>,
        <<"p","e","r","s","o","n","a","l">> >>],
    [category |-> "Study", kws |-> <<
        <<"l","e","c","t","u","r","e">>,
        <<"a","s","s","i","g","n","m","e","n","t">>,
        <<"e","x","a","m">>,
        <<"r","e","s","e","a","r","c","h">>,
        <<"s","t","u","d","y">>,
        <<"c","l","a","s","s">> >>],
    [category |-> "Idea", kws |-> <<
        <<"i","d","e","a">>,
        <<"c","o","n","c","e","p","t">>,
        <<"b","r","a","i","n","s","t","o","r","m">>,
        <<"i","n","n","o","v","a","t","e">> >>] >>

\* the text as it would be without .lower()
CategorizeTextNoLower(title, content) == title \o <<" ">> \o content

\* text = (title + " " + content).lower()
CategorizeText(title, content) == Lower(title \o <<" ">> \o content)

\* for kw in kws: if kw in text  (from the j-th keyword on)
RECURSIVE ScanKeywords(_, _, _)
ScanKeywords(text, kws, j) ==
    IF j > Len(kws) THEN FALSE
    ELSE IF IsSubstring(kws[j], text) THEN TRUE
    ELSE ScanKeywords(text, kws, j + 1)

\* for category, kws in keywords.items(): ... return category
\* (from the i-th category on; "" when the loops fall through)
RECURSIVE ScanCategories(_, _)
ScanCategories(text, i) ==
    IF i > Len(keywords) THEN ""
    ELSE IF ScanKeywords(text, keywords[i].kws, 1) THEN keywords[i].category
    ELSE ScanCategories(text, i + 1)

\* random.choice(list(keywords.keys()) + ["General"])
FallbackCategories ==
    {keywords[i].category : i \in 1..Len(keywords)} \cup {"General"}

\* the set of values _categorize_note(title, content) can return
CategorizeNote(title, content) ==
    LET hit == ScanCategories(CategorizeText(title, content), 1)
    IN IF hit # "" THEN {hit} ELSE FallbackCategories

-----------------------------------------------------------------------------
(* Note, CategorizedNote and their to_dict *)

Note(note_id, title, content) ==
    [cls |-> "Note", id |-> note_id, title |-> title, content |-> content]

CategorizedNote(note_id, title, content, category) ==
    [cls |-> "CategorizedNote", id |-> note_id, title |-> title,
     content |-> content, category |-> category]

\* Note.to_dict
NoteToDict(n) == [id |-> n.id, title |-> n.title, content |-> n.content]

\* a to_dict that is not overridden: the category is not written
CategorizedToDictNoCategory(n) == NoteToDict(n)

\* CategorizedNote.to_dict: data = super().to_dict(); data["category"] = ...
CategorizedToDict(n) == NoteToDict(n) @@ ("category" :> n.category)

\* note.to_dict() by dynamic dispatch
ToDict(n) == IF n.cls = "CategorizedNote" THEN CategorizedToDict(n)
             ELSE NoteToDict(n)

-----------------------------------------------------------------------------
(* The file at file_path *)

Absent == [kind |-> "absent", data |-> <<>>]
Garbage == [kind |-> "garbage", data |-> <<>>]
JsonFile(items) == [kind |-> "json", data |-> items]

\* the keys item["id"], item["title"], item["content"] read by _load_notes
RequiredKeys == {"id", "title", "content"}

\* one iteration of the loop of _load_notes
ItemToNote(item) ==
    IF "category" \in DOMAIN item
    THEN CategorizedNote(item.id, item.title, item.content, item.category)
    ELSE Note(item.id, item.title, item.content)

\* _load_notes: io is the outcome of open/read, "ok" or "io_error".
\* status "raised" is an exception that neither except clause catches.
LoadNotes(d, io) ==
    IF d.kind = "absent"
    THEN [status |-> "ok", notes |-> <<>>, warned |-> FALSE]
    ELSE IF io = "io_error" \/ d.kind = "garbage"
    THEN [status |-> "ok", notes |-> <<>>, warned |-> TRUE]
    ELSE IF \E i \in 1..Len(d.data) :
                ~(RequiredKeys \subseteq DOMAIN d.data[i])
    THEN [status |-> "raised", notes |-> <<>>, warned |-> FALSE]
    ELSE [status |-> "ok",
          notes |-> [i \in 1..Len(d.data) |-> ItemToNote(d.data[i])],
          warned |-> FALSE]

\* the outcomes of _save_notes: written, open() raised IOError (file as it
\* was), or the write raised IOError after open() truncated the file
SaveOutcomes == {"ok", "open_failed", "write_failed"}

\* a save that appends the newest record instead of rewriting the file
SaveNotesAppend(d, ns, out) ==
    IF out = "ok"
    THEN IF ns = <<>> THEN JsonFile(<<>>)
         ELSE JsonFile(d.data \o <<ToDict(ns[Len(ns)])>>)
    ELSE IF out = "open_failed" THEN d
    ELSE Garbage

\* the file after _save_notes
SaveNotes(d, ns, out) ==
    IF out = "ok" THEN JsonFile([i \in 1..Len(ns) |-> ToDict(ns[i])])
    ELSE IF out = "open_failed" THEN d
    ELSE Garbage

\* a handler that encloses open() only: a failed write propagates
SaveEscapesWrite(out) == out = "write_failed"

\* whether an outcome of _save_notes leaves it as an exception: none does,
\* "except IOError" encloses both open() and json.dump()
SaveEscapes(out) == FALSE

\* an id taken from the length of the collection
NewIdByCount(ns) == Len(ns) + 1

\* new_id = self.notes[-1].get_id() + 1 if self.notes else 1
NewId(ns) == IF Len(ns) > 0 THEN ns[Len(ns)].id + 1 ELSE 1

\* a delete by position: drops the note_id-th note
WithoutByPosition(ns, note_id) ==
    IF note_id \in 1..Len(ns)
    THEN SubSeq(ns, 1, note_id - 1) \o SubSeq(ns, note_id + 1, Len(ns))
    ELSE ns

\* [note for note in self.notes if note.get_id() != note_id]
RECURSIVE Without(_, _)
Without(ns, note_id) ==
    IF ns = <<>> THEN <<>>
    ELSE IF Head(ns).id # note_id
         THEN <<Head(ns)>> \o Without(Tail(ns), note_id)
         ELSE Without(Tail(ns), note_id)

\* the comparison with <= in place of <
RemovedOrSame(ns, original_count) == Len(ns) <= original_count

\* if len(self.notes) < original_count
Removed(ns, original_count) == Len(ns) < original_count

Ids(ns) == {ns[i].id : i \in 1..Len(ns)}

-----------------------------------------------------------------------------
(* Inputs *)

\* titles and contents typed at the menu
Titles == { <<"g","y","m">> }
Contents == { <<>>, <<"W","o","r","k">> }

\* ids typed at the delete prompt
DeleteArgs == 1..MaxId

\* records a file found at start-up may hold: a categorized note, a legacy
\* note without category, and a record without "content"
StoredItems ==
    UNION { { [id |-> k, title |-> <<"x">>, content |-> <<>>, category |-> "Idea"],
              [id |-> k, title |-> <<"x">>, content |-> <<>>],
              [id |-> k, title |-> <<"x">>] } : k \in 1..MaxStoredId }

\* files found at start-up: none, unparseable, or a list of records with
\* pairwise distinct ids in any order
InitialFiles ==
    {Absent, Garbage} \cup
    { JsonFile(s) : s \in
        { t \in UNION {[1..k -> StoredItems] : k \in 0..MaxStored} :
            \A i, j \in 1..Len(t) : i # j => t[i].id # t[j].id } }

\* texts handed to the categorizer on its own
CatTexts ==
    { <<>>,
      <<"w","o">>,
      <<"r","k">>,
      <<"G","y","m">>,
      <<"w","o","r","k">>,
      <<"E","X","A","M">>,
      <<"m","y"," ","I","d","e","a">>,
      <<"x","y","z">> }

-----------------------------------------------------------------------------
(* NoteOrganizer *)

Fail(out) == IF out = "ok" THEN 0 ELSE 1

\* NoteOrganizer.__init__ as called first thing by main()
Construct ==
    /\ pc = "start"
    /\ \E io \in {"ok", "io_error"} :
         LET r == LoadNotes(disk, io) IN
         /\ failures + Fail(io) <= MaxFailures
         /\ io = "io_error" => disk.kind # "absent"
         /\ pc' = IF r.status = "ok" THEN "ready" ELSE "crashed"
         /\ notes' = r.notes
         /\ warning' = IF r.warned THEN "load" ELSE "none"
         /\ used' = used \cup Ids(r.notes)
         /\ failures' = failures + Fail(io)
    /\ lastOp' = "construct"
    /\ lastArg' = 0
    /\ found' = FALSE
    /\ saveResult' = "none"
    /\ UNCHANGED <<disk, catVars>>

\* add_note
AddNote ==
    /\ pc = "ready"
    /\ Len(notes) < MaxNotes
    /\ \E title \in Titles, content \in Contents, out \in SaveOutcomes :
       \E category \in CategorizeNote(title, content) :
         LET new_id == NewId(notes)
             new_note == CategorizedNote(new_id, title, content, category)
             ns == Append(notes, new_note)
         IN /\ new_id <= MaxId
            /\ failures + Fail(out) <= MaxFailures
            /\ notes' = ns
            /\ disk' = SaveNotes(disk, ns, out)
            /\ saveResult' = IF out = "ok" THEN "ok" ELSE "failed"
            /\ warning' = IF out = "ok" \/ SaveEscapes(out) THEN "none" ELSE "save"
            /\ pc' = IF SaveEscapes(out) THEN "crashed" ELSE pc
            /\ used' = used \cup {new_id}
            /\ failures' = failures + Fail(out)
    /\ lastOp' = "add"
    /\ lastArg' = 0
    /\ found' = FALSE
    /\ UNCHANGED catVars

\* delete_note
DeleteNote ==
    /\ pc = "ready"
    /\ \E note_id \in DeleteArgs, out \in SaveOutcomes :
         LET original_count == Len(notes)
             ns == Without(notes, note_id)
         IN /\ notes' = ns
            /\ lastArg' = note_id
            /\ IF Removed(ns, original_count)
               THEN /\ failures + Fail(out) <= MaxFailures
                    /\ disk' = SaveNotes(disk, ns, out)
                    /\ saveResult' = IF out = "ok" THEN "ok" ELSE "failed"
                    /\ warning' = IF out = "ok" \/ SaveEscapes(out)
                                  THEN "none" ELSE "save"
                    /\ pc' = IF SaveEscapes(out) THEN "crashed" ELSE pc
                    /\ failures' = failures + Fail(out)
                    /\ found' = ~SaveEscapes(out)
               ELSE /\ out = "ok"
                    /\ saveResult' = "none"
                    /\ warning' = "none"
                    /\ found' = FALSE
                    /\ UNCHANGED <<pc, disk, failures>>
    /\ lastOp' = "delete"
    /\ UNCHANGED <<used, catVars>>

\* choice '6': the loop of main() ends; the next run starts from the file
Exit ==
    /\ pc = "ready"
    /\ pc' = "start"
    /\ notes' = <<>>
    /\ lastOp' = "exit"
    /\ lastArg' = 0
    /\ found' = FALSE
    /\ saveResult' = "none"
    /\ warning' = "none"
    /\ UNCHANGED <<disk, used, failures, catVars>>

Init ==
    /\ pc = "start"
    /\ notes = <<>>
    /\ disk \in InitialFiles
    /\ lastOp = "none"
    /\ lastArg = 0
    /\ found = FALSE
    /\ saveResult = "none"
    /\ warning = "none"
    /\ used = {}
    /\ failures = 0
    /\ catTitle = <<>>
    /\ catContent = <<>>
    /\ catResult = ""

Next == Construct \/ AddNote \/ DeleteNote \/ Exit

Spec == Init /\ [][Next]_vars

\* first run: no file at file_path, the collection starts empty
InitEmpty == Init /\ disk = Absent

SpecEmpty == InitEmpty /\ [][Next]_vars

\* _categorize_note on its own
InitCat ==
    /\ pc = "start"
    /\ notes = <<>>
    /\ disk = Absent
    /\ lastOp = "none"
    /\ lastArg = 0
    /\ found = FALSE
    /\ saveResult = "none"
    /\ warning = "none"
    /\ used = {}
    /\ failures = 0
    /\ catTitle \in CatTexts
    /\ catContent \in CatTexts
    /\ catResult = ""

Categorize ==
    /\ catResult = ""
    /\ catResult' \in CategorizeNote(catTitle, catContent)
    /\ UNCHANGED <<mgrVars, catTitle, catContent>>

NextCat == Categorize

SpecCat == InitCat /\ [][NextCat]_vars

TypeOK ==
    /\ pc \in {"start", "ready", "crashed"}
    /\ disk.kind \in {"absent", "garbage", "json"}
    /\ saveResult \in {"none", "ok", "failed"}
    /\ failures \in 0..MaxFailures

-----------------------------------------------------------------------------
(* Properties *)

MaxOf(S) == CHOOSE x \in S : \A y \in S : y <= x

\* the k-th smallest element of a set of integers
KthSmallest(S, k) == CHOOSE x \in S : Cardinality({y \in S : y < x}) = k - 1

\* the file holds exactly the records of the collection ns, in order
HoldsExactly(d, ns) ==
    /\ d.kind = "json"
    /\ Len(d.data) = Len(ns)
    /\ \A i \in 1..Len(ns) :
         /\ d.data[i].id = ns[i].id
         /\ d.data[i].title = ns[i].title
         /\ d.data[i].content = ns[i].content
         /\ ("category" \in DOMAIN d.data[i]) <=> (ns[i].cls = "CategorizedNote")
         /\ ns[i].cls = "CategorizedNote" => d.data[i].category = ns[i].category

\* C1: no two notes of the in-memory collection have the same id, in every
\* state reached by adds and deletes from the empty collection or from a
\* stored collection with pairwise distinct ids.
C1_UniqueIds ==
    \A i, j \in 1..Len(notes) : i # j => notes[i].id # notes[j].id

\* C2: starting from the empty collection, the id that add gives a note is
\* different from the id of every note that was ever in the collection.
C2_NeverReused ==
    [][lastOp' = "add" => notes'[Len(notes')].id \notin used]_vars

\* C2 (amended): starting from the empty collection, the id that add gives
\* a note is different from every id that was ever in the collection and is
\* not larger than the id of some note still in it; only an id above all the
\* remaining notes' ids can come back.
C2_NoReuseBelowRemaining ==
    [][lastOp' = "add" =>
         \A u \in used :
            (\E i \in 1..Len(notes) : notes[i].id >= u)
               => notes'[Len(notes')].id # u]_vars

\* an add that followed the deletion of a note that was not the last one
C2_Witness ==
    /\ lastOp = "add"
    /\ Len(notes) >= 2
    /\ \E u \in used : u \notin Ids(notes) /\ u < notes[Len(notes)].id

\* C3: add gives the new note the id (maximum id present) + 1, or 1 when the
\* collection was empty, whatever the stored order of the collection.
C3_MaxPlusOne ==
    lastOp = "add" =>
        LET n == Len(notes)
            before == Ids(SubSeq(notes, 1, n - 1))
        IN notes[n].id = IF before = {} THEN 1 ELSE MaxOf(before) + 1

\* C4: every add and every delete that removed a note attempted a save, and
\* when that save succeeded the file holds exactly the records of the whole
\* in-memory collection, in the same order.
C4_MemoryDiskConsistent ==
    (lastOp = "add" \/ (lastOp = "delete" /\ found)) =>
        /\ saveResult # "none"
        /\ saveResult = "ok" => HoldsExactly(disk, notes)

\* a successful full rewrite of two notes or more after an earlier failure
C4_Witness ==
    /\ lastOp = "add"
    /\ saveResult = "ok"
    /\ failures >= 1
    /\ Len(notes) >= 2
    /\ HoldsExactly(disk, notes)

\* C5: delete of an id that no note has reports "not found", leaves the
\* collection and the file as they were and does not invoke save.
C5_DeleteAbsent ==
    [][(lastOp' = "delete" /\ lastArg' \notin Ids(notes)) =>
          /\ ~found'
          /\ notes' = notes
          /\ disk' = disk
          /\ saveResult' = "none"]_vars

\* a delete that found nothing in a collection of two notes the file lacks
C5_Witness ==
    /\ lastOp = "delete"
    /\ ~found
    /\ lastArg \notin Ids(notes)
    /\ Len(notes) >= 2
    /\ ~HoldsExactly(disk, notes)

\* C6: delete of an id present reports "found", removes the notes with that
\* id and no other, keeps the remaining notes unchanged in their relative
\* order, and saves exactly the remaining notes.
C6_DeletePresent ==
    [][(lastOp' = "delete" /\ lastArg' \in Ids(notes)) =>
          LET keep == {i \in 1..Len(notes) : notes[i].id # lastArg'}
          IN /\ found'
             /\ Len(notes') = Cardinality(keep)
             /\ \A k \in 1..Len(notes') : notes'[k] = notes[KthSmallest(keep, k)]
             /\ saveResult' # "none"
             /\ saveResult' = "ok" => HoldsExactly(disk', notes')]_vars

\* [1,2,3] after delete(2): [1,3] in memory and on disk
C6_Witness ==
    /\ lastOp = "delete"
    /\ found
    /\ lastArg = 2
    /\ used = {1, 2, 3}
    /\ [i \in 1..Len(notes) |-> notes[i].id] = <<1, 3>>
    /\ saveResult = "ok"
    /\ [i \in 1..Len(disk.data) |-> disk.data[i].id] = <<1, 3>>

\* the categories with a keyword occurring in text
Matching(text) ==
    {i \in 1..Len(keywords) :
        \E j \in 1..Len(keywords[i].kws) : IsSubstring(keywords[i].kws[j], text)}

\* C7: categorize returns the first category in table order with a keyword
\* occurring in the lower-cased concatenation of title and content.
C7_PlainConcatenation ==
    catResult # "" =>
        LET m == Matching(Lower(catTitle \o catContent))
        IN m # {} => catResult = keywords[KthSmallest(m, 1)].category

\* C7 (amended): categorize returns the first category in table order with a
\* keyword occurring in the lower-cased text made of the title, one space and
\* the content; the result is the same on every call when a keyword occurs.
C7_SpaceJoined ==
    catResult # "" =>
        LET m == Matching(Lower(catTitle \o <<" ">> \o catContent))
        IN m # {} => catResult = keywords[KthSmallest(m, 1)].category

\* a Personal keyword in the title, a Work keyword in the content: Work
C7_Witness ==
    /\ catTitle = <<"G","y","m">>
    /\ catContent = <<"w","o","r","k">>
    /\ catResult = "Work"

\* the file is not parseable or has a record lacking a required field
Malformed(d) ==
    \/ d.kind = "garbage"
    \/ /\ d.kind = "json"
       /\ \E i \in 1..Len(d.data) : ~(RequiredKeys \subseteq DOMAIN d.data[i])

\* C8: construction over an unreadable or malformed file does not fail and
\* starts with the empty collection.
C8_LoadRecovers ==
    (lastOp = "construct" /\ (Malformed(disk) \/ warning = "load")) =>
        (pc = "ready" /\ notes = <<>>)

\* C9: a failed save is reported as a warning, does not escape the manager
\* and does not undo the mutation: the added note stays, the deleted note
\* stays removed, and the manager keeps accepting operations.
C9_SaveFailureKept ==
    [][saveResult' = "failed" =>
          /\ pc' = "ready"
          /\ warning' = "save"
          /\ lastOp' = "add" =>
                /\ Len(notes') = Len(notes) + 1
                /\ SubSeq(notes', 1, Len(notes)) = notes
          /\ lastOp' = "delete" =>
                /\ Len(notes') < Len(notes)
                /\ lastArg' \notin Ids(notes')]_vars

\* an add whose save failed after truncating the file
C9_Witness ==
    /\ lastOp = "add"
    /\ saveResult = "failed"
    /\ warning = "save"
    /\ disk = Garbage
    /\ Len(notes) >= 2
    /\ pc = "ready"

\* C10: after a successful save, loading the file yields the collection
\* again: same ids, titles, contents and categories in the same order, a
\* note without category staying a note without category.
C10_RoundTrip ==
    saveResult = "ok" =>
        LET r == LoadNotes(disk, "ok")
        IN /\ r.status = "ok"
           /\ ~r.warned
           /\ r.notes = notes

\* a saved collection with a legacy note and a categorized note
C10_Witness ==
    /\ saveResult = "ok"
    /\ \E i \in 1..Len(notes) : notes[i].cls = "Note"
    /\ \E i \in 1..Len(notes) : notes[i].cls = "CategorizedNote"

====
